---- MODULE Spec2Model ----
(***************************************************************************)
(* OneNote-To-Markdown-Exporter: the Backoff-Retry Caller                  *)
(* (call_graph_with_retry), the Paginator (call_graph_paginated) and the   *)
(* Hierarchy Walker (export_notebooks, export_page), the Token Provider     *)
(* (get_token) and main of src/onenote_exporter.py.                        *)
(*                                                                         *)
(* The program is single-threaded.  One step of the model is the code run  *)
(* between two blocking calls (session.get, time.sleep), so the order of   *)
(* GETs and sleeps is the order of the steps.                              *)
(*                                                                         *)
(* Environment: the remote side answers every GET with a network-level     *)
(* failure or with a status; a 2xx answer of a listing endpoint carries a  *)
(* JSON object with a "value" array and an optional "@odata.nextLink"      *)
(* (spec section 6).                                                       *)
(***************************************************************************)
EXTENDS Integers, Sequences, FiniteSets, TLC

\* ---------------------------------------------------------------- constants
MAX_RETRIES == 3
BASE_DELAY == 1
\* hash(media_url) % 10000
HASH_MODULUS == 10000

\* -------------------------------------------------------------------- bounds
\* most notebooks, sections of one notebook and pages of one section the
\* remote side holds
MaxNotebooks == 2
MaxSections == 2
MaxSectionPages == 2
\* most response pages the notebooks listing is served in
MaxPages == 2
\* most response pages a sections or pages listing is served in
MaxInnerPages == 1
\* most get_token calls a client of the exporter makes
MaxTokenCalls == 5
\* most img tags of one HTML body
MaxImages == 3
\* most chunks iter_content cuts one media body into
MaxChunks == 1
\* most characters of a name handed to the sanitization
MaxNameLen == 2
\* most pages of the section whose files are written
MaxWrites == 2
\* most calls of download_media by a client of its own
MaxDownloads == 2
\* most img tags of the page whose export is followed GET by GET
MaxFetchImages == 1
\* page_id[:8]
ID_PREFIX_LEN == 8

\* ---------------------------------------------------------------- the remote
\* session.get follows redirects: the status it hands back is 2xx, 4xx or 5xx
Statuses == {200, 404, 429, 500}

\* Retry-After header values as the characters of the header string
RetryAfterHeaders == { <<"1", "2">>, <<"W", "e", "d">> }

Digits == {"0", "1", "2", "3", "4", "5", "6", "7", "8", "9"}

DigitVal(c) ==
  CASE c = "0" -> 0 [] c = "1" -> 1 [] c = "2" -> 2 [] c = "3" -> 3
    [] c = "4" -> 4 [] c = "5" -> 5 [] c = "6" -> 6 [] c = "7" -> 7
    [] c = "8" -> 8 [] c = "9" -> 9

\* int(s) succeeds on a string of decimal digits, raises ValueError otherwise
IntParses(s) == Len(s) > 0 /\ \A i \in 1..Len(s) : s[i] \in Digits

RECURSIVE ParseInt(_)
ParseInt(s) ==
  IF Len(s) = 0 THEN 0
  ELSE ParseInt(SubSeq(s, 1, Len(s) - 1)) * 10 + DigitVal(s[Len(s)])

Pow2(n) == 2 ^ n

\* a URL of a listing endpoint: the kind of listing, the id of the parent
\* record, and the server's continuation state (records and pages served)
NoLink == [kind |-> "none", parent |-> <<>>, skip |-> 0, page |-> 0]
NotebooksUrl == [kind |-> "notebooks", parent |-> <<>>, skip |-> 0, page |-> 1]
SectionsUrl(notebook) == [kind |-> "sections", parent |-> notebook, skip |-> 0, page |-> 1]
PagesUrl(section) == [kind |-> "pages", parent |-> section, skip |-> 0, page |-> 1]

\* the records number k+1..k+c of the listing under parent p; a record is
\* its id, the path of positions from the root
RECURSIVE Records(_, _, _)
Records(p, k, c) ==
  IF c = 0 THEN <<>> ELSE <<Append(p, k + 1)>> \o Records(p, k + 1, c - 1)

\* most records the listing of a url holds, over all its response pages
MaxItems(u) ==
  IF u.kind = "notebooks" THEN MaxNotebooks
  ELSE IF u.kind = "sections" THEN MaxSections
  ELSE MaxSectionPages

\* most response pages the listing of a url is served in
MaxResponses(u) == IF u.kind = "notebooks" THEN MaxPages ELSE MaxInnerPages

NoBody == [value |-> <<>>, next |-> NoLink]

\* the JSON objects the server may answer a listing URL with
ListingBodies(u) ==
  { [value |-> Records(u.parent, u.skip, c),
     next |-> IF more THEN [u EXCEPT !.skip = u.skip + c, !.page = u.page + 1]
              ELSE NoLink] :
      c \in 0..(MaxItems(u) - u.skip),
      more \in IF u.page < MaxResponses(u) THEN BOOLEAN ELSE {FALSE} }

NetFailure ==
  [kind |-> "net", status |-> 0, hasRetryAfter |-> FALSE, retryAfter |-> <<>>,
   body |-> NoBody]

HttpResponse(s, has, ra, b) ==
  [kind |-> "http", status |-> s, hasRetryAfter |-> has, retryAfter |-> ra,
   body |-> b]

\* every outcome of one session.get(url)
Responses(u) ==
  {NetFailure}
    \cup { HttpResponse(s, FALSE, <<>>, NoBody) : s \in Statuses \ {200} }
    \cup { HttpResponse(429, TRUE, ra, NoBody) : ra \in RetryAfterHeaders }
    \cup { HttpResponse(200, FALSE, <<>>, b) : b \in ListingBodies(u) }

\* outcomes of the page-content GET of export_page
ContentResponses ==
  {NetFailure} \cup { HttpResponse(s, FALSE, <<>>, NoBody) : s \in Statuses }

\* ---------------------------------------------------------------- exceptions
NoErr == [type |-> "none", status |-> 0]
ConnectionError == [type |-> "ConnectionError", status |-> 0]
HTTPError(s) == [type |-> "HTTPError", status |-> s]
ValueError == [type |-> "ValueError", status |-> 0]
AttributeError == [type |-> "AttributeError", status |-> 0]
KeyError == [type |-> "KeyError", status |-> 0]
OSError == [type |-> "OSError", status |-> 0]
\* requests.exceptions.MissingSchema: the URL of a request has no scheme
MissingSchema == [type |-> "MissingSchema", status |-> 0]
\* an exception of the HTML transformation
TransformError == [type |-> "Exception", status |-> 0]
\* the classes deriving from Exception
ExceptionTypes ==
  {"ConnectionError", "HTTPError", "MissingSchema", "ValueError", "AttributeError",
   "KeyError", "OSError", "Exception"}

\* requests.exceptions.RequestException and its subclasses
IsRequestException(e) == e.type \in {"ConnectionError", "HTTPError", "MissingSchema"}

\* ------------------------------------------------------ identity provider
PLACEHOLDER_CLIENT_ID == "YOUR_CLIENT_ID_HERE"
ClientIds == {PLACEHOLDER_CLIENT_ID, "app-id"}

\* the dict initiate_device_flow returns: with a user_code and a message,
\* or an error without them
DeviceFlows == { [user_code |-> b] : b \in BOOLEAN }
NoFlow == [user_code |-> FALSE]

\* the access token of the k-th device-code exchange
AccessToken(k) == <<"token", k>>

\* the dict acquire_token_by_device_flow returns on the k-th exchange: an
\* access_token, or an error with or without an error_description
TokenResults(k) ==
  { [hasToken |-> TRUE, token |-> AccessToken(k), hasDesc |-> FALSE, desc |-> ""] }
    \cup { [hasToken |-> FALSE, token |-> AccessToken(0), hasDesc |-> TRUE,
            desc |-> "User denied access"],
           [hasToken |-> FALSE, token |-> AccessToken(0), hasDesc |-> FALSE,
            desc |-> ""] }
NoResult == [hasToken |-> FALSE, token |-> AccessToken(0), hasDesc |-> FALSE, desc |-> ""]

NoAuthErr == [type |-> "none", msg |-> "", detail |-> ""]
RuntimeError(m, d) == [type |-> "RuntimeError", msg |-> m, detail |-> d]

\* the session's default headers; "" is a header that is not set
HeaderNames == {"Authorization", "Accept", "Content-Type"}
\* requests.Session() starts with Accept: */* and no Authorization
InitialHeaders ==
  [h \in HeaderNames |-> IF h = "Accept" THEN <<"*/*">> ELSE <<>>]
\* f"Bearer {self.token}"
Bearer(t) == <<"Bearer", t>>

\* ---------------------------------------------------------------- strings
\* A string is the sequence of its pieces; the pieces are the units the
\* strings of the model differ by.

\* s has p at position i
OccursAt(s, p, i) ==
  i + Len(p) - 1 <= Len(s) /\ SubSeq(s, i, i + Len(p) - 1) = p

\* str.replace(old, new): every occurrence, left to right, not overlapping
RECURSIVE Replace(_, _, _)
Replace(s, old, new) ==
  IF Len(s) < Len(old) \/ s = <<>> THEN s
  ELSE IF OccursAt(s, old, 1)
       THEN new \o Replace(SubSeq(s, Len(old) + 1, Len(s)), old, new)
       ELSE <<Head(s)>> \o Replace(Tail(s), old, new)

\* the part of s after its last "/": os.path.basename, split('/')[-1]
AfterLastSlash(s) ==
  LET at == { i \in 1..Len(s) : s[i] = "/" } IN
  IF at = {} THEN s
  ELSE SubSeq(s, (CHOOSE i \in at : \A j \in at : j <= i) + 1, Len(s))

\* the pieces with a '.' in them
DotPieces == {".", ".png", ".bin"}
\* '.' in filename
HasDot(s) == \E i \in 1..Len(s) : s[i] \in DotPieces

\* ------------------------------------------------------------- media URLs
Origins == {"http://h"}
\* the src values of the img tags of a page. Three absolute URLs, each a
\* prefix of the next
UrlNoName == <<"http://h", "/">>
UrlNoExt == <<"http://h", "/", "pic">>
UrlPng == <<"http://h", "/", "pic", ".png">>
\* two relative references, the second to a directory named httpdocs
UrlRelative == <<"rel", ".png">>
UrlHttpdocs == <<"httpdocs", "/", "rel", ".png">>
Urls == {UrlNoName, UrlNoExt, UrlPng, UrlRelative, UrlHttpdocs}

\* the first pieces that begin with the four characters http
HttpPrefixed == Origins \cup {"httpdocs"}
\* img_url.startswith('http')
StartsWithHttp(u) == u # <<>> /\ Head(u) \in HttpPrefixed
\* the URL has a scheme and a host
HasScheme(u) == u # <<>> /\ Head(u) \in Origins
\* urlparse(media_url).path
UrlPath(u) == IF HasScheme(u) THEN Tail(u) ELSE u

\* hash() of two runs of the program: the values of two URLs agreeing
\* modulo 10000 in one, differing in the other
HashFunctions ==
  { [u \in Urls |-> IF u = UrlNoExt THEN 10007 ELSE 7],
    [u \in Urls |-> IF u = UrlNoExt THEN 9041 ELSE 7] }

\* the content-type headers of a media response; <<>> is no header
ContentTypes ==
  { <<>>,
    <<"image", "/", "png">>,
    <<"image", "/", "svg+xml", "; charset=utf-8">>,
    <<"text", "/", "html">> }

\* 'image/' in content_type
IsImageType(ct) ==
  \E i \in 1..(Len(ct) - 1) : ct[i] = "image" /\ ct[i + 1] = "/"

\* f"image_{hash(media_url) % 10000}.{ext}" and f"media_{...}.bin"
ImageName(h, ext) == <<"image_", ToString(h % HASH_MODULUS), ".">> \o ext
MediaName(h) == <<"media_", ToString(h % HASH_MODULUS), ".bin">>

\* the filename download_media derives from the URL, else the content type
MediaFilename(u, ct, h) ==
  LET filename == AfterLastSlash(UrlPath(u)) IN
  IF filename = <<>> \/ ~HasDot(filename)
  THEN IF IsImageType(ct) THEN ImageName(h, AfterLastSlash(ct))
       ELSE MediaName(h)
  ELSE filename

\* the responses to the media GET: a network failure, or a status, a
\* content type and a body of some chunks
MediaResponses ==
  {[kind |-> "net", status |-> 0, ctype |-> <<>>, chunks |-> 0]}
    \cup { [kind |-> "http", status |-> st, ctype |-> ct, chunks |-> n] :
             st \in Statuses, ct \in ContentTypes, n \in 0..MaxChunks }

\* ---------------------------------------------------------------- HTML
ImgOpen == "<img src='"
ImgClose == "'>"
ImgTag(u) == <<ImgOpen>> \o u \o <<ImgClose>>

\* the img tags of a page, by their src values
Documents == UNION { [1..n -> Urls] : n \in 0..MaxImages }

RECURSIVE Tags(_)
Tags(d) == IF d = <<>> THEN <<>> ELSE ImgTag(Head(d)) \o Tags(Tail(d))
\* the HTML body of a page with the img tags d
Html(d) == <<"<p>">> \o Tags(d) \o <<"</p>">>

\* the first position of piece c in s, 0 when there is none
FirstAt(s, c) ==
  LET at == { i \in 1..Len(s) : s[i] = c } IN
  IF at = {} THEN 0 ELSE CHOOSE i \in at : \A j \in at : i <= j

\* group 1 of the matches of <img[^>]+src=["\']([^"\']+)["\'][^>]*>, in order
RECURSIVE ImgSrcs(_)
ImgSrcs(h) ==
  IF h = <<>> THEN <<>>
  ELSE IF Head(h) = ImgOpen /\ FirstAt(Tail(h), ImgClose) > 1
       THEN LET k == FirstAt(Tail(h), ImgClose) IN
            <<SubSeq(Tail(h), 1, k - 1)>>
              \o ImgSrcs(SubSeq(Tail(h), k + 1, Len(Tail(h))))
       ELSE ImgSrcs(Tail(h))

\* ------------------------------------------------------------------ names
\* A name is the sequence of its characters.

\* the character class of re.sub(r'[<>:"/\\|?*]', '_', name)
IllegalChars == {"<", ">", ":", "\"", "/", "\\", "|", "?", "*"}
\* the characters str.strip() removes
Whitespace == {" "}
\* the characters of the names of the remote side
NameChars == IllegalChars \cup Whitespace \cup {"a", "."}

\* the names of at most n characters
Names(n) == UNION { [1..k -> NameChars] : k \in 0..n }

\* variant: the illegal characters removed
Sanitize_Removes(name) == SelectSeq(name, LAMBDA c : c \notin IllegalChars)
\* re.sub(r'[<>:"/\\|?*]', '_', name)
Sanitize(name) ==
  [i \in 1..Len(name) |-> IF name[i] \in IllegalChars THEN "_" ELSE name[i]]

\* a notebook or section record: its displayName, which may be missing
DisplayNames == {<<>>, <<"a">>, <<"a", "/", "b">>, <<".", ".">>}
Items == [has : {TRUE}, name : DisplayNames] \cup {[has |-> FALSE, name |-> <<>>]}
\* item.get("displayName", "Untitled")
DisplayName(item) == IF item.has THEN item.name ELSE <<"Untitled">>

\* a page record: its id and its title, which may be missing
NoPage == [id |-> <<>>, hasTitle |-> FALSE, title |-> <<>>]
\* the id of the k-th page of the section: ids differ, some are shorter than
\* eight characters, some agree on their first eight
PageId(k) ==
  IF k % 2 = 1 THEN <<"0", "-", "a", "b", "c", "d", "e", "f", "!", ToString(k)>>
               ELSE <<"p", ToString(k)>>
Titles == {<<>>, <<" ">>, <<" ", "a">>, <<"a", "/", "b">>, <<"a", ":", "b">>}
PageRecords(k) ==
  [id : {PageId(k)}, hasTitle : {TRUE}, title : Titles]
    \cup {[id |-> PageId(k), hasTitle |-> FALSE, title |-> <<>>]}
\* page.get("title", "Untitled")
PageTitle(p) == IF p.hasTitle THEN p.title ELSE <<"Untitled">>

\* name.strip()
RECURSIVE LStrip(_)
LStrip(name) ==
  IF name # <<>> /\ Head(name) \in Whitespace THEN LStrip(Tail(name)) ELSE name
RECURSIVE RStrip(_)
RStrip(name) ==
  IF name # <<>> /\ name[Len(name)] \in Whitespace
  THEN RStrip(SubSeq(name, 1, Len(name) - 1)) ELSE name
Strip(name) == RStrip(LStrip(name))

\* page_id[:8]: the whole id when it is shorter
IdPrefix(id) ==
  SubSeq(id, 1, IF Len(id) < ID_PREFIX_LEN THEN Len(id) ELSE ID_PREFIX_LEN)
\* variant: only the empty title falls back
SafeTitle_EmptyOnly(p) ==
  IF Sanitize(PageTitle(p)) = <<>>
  THEN <<"page_">> \o IdPrefix(p.id)
  ELSE Sanitize(PageTitle(p))
\* safe_title of export_page (lines 196-199)
SafeTitle(p) ==
  IF Strip(Sanitize(PageTitle(p))) = <<>>
  THEN <<"page_">> \o IdPrefix(p.id)
  ELSE Sanitize(PageTitle(p))

\* A path is the sequence of its components.
\* OUTPUT_DIR = pathlib.Path("output")
OutputDir == << <<"output">> >>
\* path / name: pathlib drops an empty and a "." component and keeps ".."
Join(path, name) ==
  IF name \in {<<>>, <<".">>} THEN path ELSE Append(path, name)
\* the directory or file the operating system takes a path for: ".." goes to
\* the parent, from the working directory <<>> to above it
RECURSIVE Resolve(_)
Resolve(path) ==
  IF path = <<>> THEN <<>>
  ELSE LET front == Resolve(SubSeq(path, 1, Len(path) - 1))
           last == path[Len(path)]
       IN IF last = <<".", ".">> /\ front # <<>> /\ front[Len(front)] # <<".", ".">>
          THEN SubSeq(front, 1, Len(front) - 1)
          ELSE Append(front, last)
\* the working directory and the directories above it are there before the run
Preexisting(path) == \A i \in 1..Len(path) : path[i] = <<".", ".">>
\* path.mkdir(parents=True, exist_ok=True): the directories it makes
Mkdir(path) ==
  {d \in {Resolve(SubSeq(path, 1, k)) : k \in 1..Len(path)} : ~Preexisting(d)}

\* ------------------------------------------------------------------- state
VARIABLES
  \* call_graph_with_retry
  cpc,        \* "idle", "get", "sleep", "returned", "raised"
  url,        \* the url argument
  attempt,    \* the loop variable
  gets,       \* session.get calls of this invocation
  hist,       \* the responses of this invocation, in order
  sleeps,     \* the time.sleep arguments of this invocation, in order
  delay,      \* the argument of the pending time.sleep
  ret,        \* the return value: <<>> is None, <<d>> the dict d
  err,        \* the exception raised
  \* call_graph_paginated
  ppc,        \* "idle", "calling", "returned", "raised"
  results,    \* the accumulated records
  served,     \* the dicts the Caller returned to this invocation, in order
  purls,      \* the urls this invocation called the Caller on, in order
  perr,       \* the exception that left call_graph_paginated
  \* export_notebooks
  wpc,        \* "start", "list_notebooks", "list_sections", "list_pages",
              \* "export_page", "done", "failed"
  notebooks, nbIdx, sections, secIdx, pages, pgIdx,
  lastExport, \* the outcome of the latest export_page: "none" before the
              \* first, then "written" or "failed"
  werr,       \* the exception re-raised by export_notebooks
  \* get_token
  gpc,        \* "idle", "called", "polling", "returned", "raised"
  token,      \* self.token: <<>> is None, <<t>> the token t
  headers,    \* self.session.headers
  calls,      \* get_token calls so far
  flows,      \* initiate_device_flow calls so far
  polls,      \* acquire_token_by_device_flow calls so far
  lastFlow,   \* what the latest initiate_device_flow returned
  lastResult, \* what the latest acquire_token_by_device_flow returned
  tret,       \* the value the latest get_token returned
  terr,       \* the exception the latest get_token raised
  \* main
  mpc,        \* "start", "auth", "export", "exited"; "client" when
              \* get_token is called by a client other than main
  clientId,   \* CLIENT_ID
  exitCode,   \* the exit status of the process, -1 while it runs
  sentAuth,   \* the Authorization header of the latest GET: <<>> before
              \* the first, <<v>> after
  \* process_html_content
  hpc,        \* "idle", "start", "loop", "download", "converted", "raised"
  doc,        \* the html argument
  html,       \* the local html, rebound by each substitution
  matches,    \* the src groups re.finditer yields on the argument, in order
  mIdx,       \* the matches taken so far
  rets,       \* what download_media returned, by download
  \* download_media
  dpc,        \* "idle", "get", "streaming", "returned", "raised"
  durl,       \* media_url
  dctype,     \* the content-type header of the response
  dname,      \* filename
  total,      \* the chunks of the response body
  written,    \* the chunks written so far
  dret,       \* the value returned: <<>> is ""
  derr,       \* the exception met in the try block, NoErr when none
  files,      \* the files under output_path
  hashOf,     \* hash() of this process, by URL
  fetched,    \* the URLs download_media was called with, in order
  cgets,      \* the content GETs the current export_page call issued
  cerr,       \* the exception the content GET of export_page ended with
  dgets,      \* the GETs the current download_media call issued
  \* the sanitization of one name
  spc,        \* "idle", "start", "done"
  rawName,    \* the name before re.sub
  safeName,   \* the name after
  \* the directories and files of one notebook, one section and its pages
  tpc,        \* "idle", "notebook", "section", "page", "done"
  nbComp,     \* safe_notebook_name
  secComp,    \* safe_section_name
  nbDir,      \* notebook_path
  secDir,     \* section_path
  page,       \* the page record export_page was last called with
  stem,       \* safe_title of that call, <<>> while not assigned
  dirs,       \* the directories made
  mdFiles,    \* the Markdown files written
  pageNo,     \* how many pages of the section export_page was called with
  pagesOk     \* the ids of the pages whose file export_page wrote

callerVars == <<cpc, url, attempt, gets, hist, sleeps, delay, ret, err>>
pagerVars == <<ppc, results, served, purls, perr>>
walkerVars == <<wpc, notebooks, nbIdx, sections, secIdx, pages, pgIdx, lastExport, werr>>
tokenVars == <<gpc, token, headers, calls, flows, polls, lastFlow, lastResult, tret, terr>>
mainVars == <<mpc, clientId, exitCode>>
htmlVars == <<hpc, doc, html, matches, mIdx, rets, fetched, cgets, cerr>>
downloadVars == <<dpc, durl, dctype, dname, total, written, dret, derr, files,
                  dgets>>
mediaVars == <<hpc, doc, html, matches, mIdx, rets, fetched, cgets, cerr, dgets,
               dpc, durl, dctype, dname, total, written, dret, derr, files, hashOf>>
pathVars == <<spc, rawName, safeName,
              tpc, nbComp, secComp, nbDir, secDir, page, stem, dirs, mdFiles, pageNo,
              pagesOk>>
vars == <<cpc, url, attempt, gets, hist, sleeps, delay, ret, err,
          ppc, results, served, purls, perr,
          wpc, notebooks, nbIdx, sections, secIdx, pages, pgIdx, lastExport, werr,
          gpc, token, headers, calls, flows, polls, lastFlow, lastResult, tret, terr,
          mpc, clientId, exitCode, sentAuth,
          hpc, doc, html, matches, mIdx, rets,
          dpc, durl, dctype, dname, total, written, dret, derr, files, hashOf,
          fetched, cgets, cerr, dgets, spc, rawName, safeName,
          tpc, nbComp, secComp, nbDir, secDir, page, stem, dirs, mdFiles, pageNo,
              pagesOk>>

\* nothing of the exporter is running
IdleExporter ==
  /\ cpc = "idle" /\ url = NoLink /\ attempt = 0 /\ gets = 0
  /\ hist = <<>> /\ sleeps = <<>> /\ delay = 0 /\ ret = <<>> /\ err = NoErr
  /\ ppc = "idle" /\ results = <<>> /\ served = <<>> /\ purls = <<>>
  /\ perr = NoErr
  /\ wpc = "start" /\ notebooks = <<>> /\ nbIdx = 0 /\ sections = <<>>
  /\ secIdx = 0 /\ pages = <<>> /\ pgIdx = 0 /\ lastExport = "none" /\ werr = NoErr
  /\ exitCode = -1 /\ sentAuth = <<>>
  /\ dpc = "idle" /\ durl = <<>> /\ dctype = <<>> /\ dname = <<>>
  /\ total = 0 /\ written = 0 /\ dret = <<>> /\ derr = NoErr
  /\ files = {}
  /\ matches = <<>> /\ mIdx = 0 /\ rets = <<>> /\ fetched = <<>>
  /\ cgets = 0 /\ cerr = NoErr /\ dgets = 0

\* get_token was not called: no token, the headers of a new session
NoCredentials ==
  /\ gpc = "idle" /\ token = <<>> /\ headers = InitialHeaders
  /\ calls = 0 /\ flows = 0 /\ polls = 0
  /\ lastFlow = NoFlow /\ lastResult = NoResult
  /\ tret = <<>> /\ terr = NoAuthErr

\* the exporter as OneNoteExporter.__init__ leaves it
InitExporter == IdleExporter /\ NoCredentials

\* no HTML body is being transformed
NoTransform ==
  /\ hpc = "idle" /\ doc = <<>> /\ html = <<>>
  /\ hashOf = [u \in Urls |-> 7]

\* no name is being sanitized and no directory or file made
NoPaths ==
  /\ spc = "idle" /\ rawName = <<>> /\ safeName = <<>>
  /\ tpc = "idle" /\ nbComp = <<>> /\ secComp = <<>>
  /\ nbDir = <<>> /\ secDir = <<>>
  /\ page = NoPage /\ stem = <<>>
  /\ dirs = {} /\ mdFiles = {} /\ pageNo = 0 /\ pagesOk = {}

\* a run of the program: main is about to start
Init ==
  /\ InitExporter
  /\ NoTransform
  /\ NoPaths
  /\ mpc = "start"
  /\ clientId \in ClientIds

\* ------------------------------------------------------------- get_token
\* variant: get_token never taking the cached token
HasCachedToken_Never(t) == FALSE
\* if self.token:
HasCachedToken(t) == t # <<>>
\* variant: the device flow polled whether it has a user code or not
FlowHasUserCode_Unchecked(f) == TRUE
\* flow.get("user_code")
FlowHasUserCode(f) == f.user_code
\* "access_token" in result
HasAccessToken(r) == r.hasToken
\* result.get('error_description', 'Unknown error')
ErrorDescription(r) == IF r.hasDesc THEN r.desc ELSE "Unknown error"
\* self.session.headers.update({...})
UpdateHeaders(hs, t) ==
  [h \in HeaderNames |->
     IF h = "Authorization" THEN Bearer(t) ELSE <<"application/json">>]

\* get_token is entered: the cached token is returned, or a device flow is
\* initiated and its outcome examined
GetTokenInitiate ==
  /\ gpc = "called"
  /\ IF HasCachedToken(token)
     THEN /\ gpc' = "returned" /\ tret' = token
          /\ UNCHANGED <<flows, lastFlow, terr>>
     ELSE \E f \in DeviceFlows :
            /\ flows' = flows + 1
            /\ lastFlow' = f
            /\ IF FlowHasUserCode(f)
               THEN gpc' = "polling" /\ UNCHANGED <<tret, terr>>
               ELSE /\ gpc' = "raised"
                    /\ terr' = RuntimeError("Device code flow failed", "")
                    /\ UNCHANGED tret
  /\ UNCHANGED <<token, headers, calls, polls, lastResult>>
  /\ UNCHANGED <<mpc, clientId, exitCode, sentAuth>>
  /\ UNCHANGED callerVars /\ UNCHANGED pagerVars /\ UNCHANGED walkerVars
  /\ UNCHANGED mediaVars
  /\ UNCHANGED pathVars

\* acquire_token_by_device_flow returns: without an access token get_token
\* raises, with one it caches the token and sets the session headers
GetTokenAcquire ==
  /\ gpc = "polling"
  /\ \E r \in TokenResults(polls + 1) :
       /\ polls' = polls + 1
       /\ lastResult' = r
       /\ IF HasAccessToken(r)
          THEN /\ token' = <<r.token>>
               /\ headers' = UpdateHeaders(headers, r.token)
               /\ gpc' = "returned" /\ tret' = <<r.token>>
               /\ UNCHANGED terr
          ELSE /\ gpc' = "raised"
               /\ terr' = RuntimeError("Failed to acquire token", ErrorDescription(r))
               /\ UNCHANGED <<token, headers, tret>>
  /\ UNCHANGED <<calls, flows, lastFlow>>
  /\ UNCHANGED <<mpc, clientId, exitCode, sentAuth>>
  /\ UNCHANGED callerVars /\ UNCHANGED pagerVars /\ UNCHANGED walkerVars
  /\ UNCHANGED mediaVars
  /\ UNCHANGED pathVars

\* a client of the exporter (the tests of get_token) calls get_token
TokenClient ==
  /\ mpc = "client"
  /\ gpc \in {"idle", "returned", "raised"}
  /\ calls < MaxTokenCalls
  /\ gpc' = "called" /\ calls' = calls + 1
  /\ UNCHANGED <<token, headers, flows, polls, lastFlow, lastResult, tret, terr>>
  /\ UNCHANGED <<mpc, clientId, exitCode, sentAuth>>
  /\ UNCHANGED callerVars /\ UNCHANGED pagerVars /\ UNCHANGED walkerVars
  /\ UNCHANGED mediaVars
  /\ UNCHANGED pathVars

\* ------------------------------------------------------- request headers
NoHeaders == [h \in HeaderNames |-> <<>>]
\* headers = {"Accept": "text/html"}
AcceptHtml == [NoHeaders EXCEPT !["Accept"] = <<"text/html">>]
\* variant: the headers of a request replace the session's
RequestHeaders_Replace(session, extra) == extra
\* Session.get merges the headers of the request over the session's
RequestHeaders(session, extra) ==
  [h \in HeaderNames |-> IF extra[h] # <<>> THEN extra[h] ELSE session[h]]

\* ------------------------------------------------- call_graph_with_retry
IsRateLimited(r) == r.status = 429
IsServerError(r) == r.status >= 500
\* variant: raise_for_status rejecting every status
RaisesForStatus_EveryStatus(r) == r.status >= 200 /\ r.status < 600
\* Response.raise_for_status raises HTTPError for 4xx and 5xx
RaisesForStatus(r) == r.status >= 400 /\ r.status < 600
\* variant: a delay growing linearly with the attempt index
BackoffDelay_Linear(k) == BASE_DELAY * (k + 1)
\* BASE_DELAY * (2 ** attempt)
BackoffDelay(k) == BASE_DELAY * Pow2(k)
\* variant: the Retry-After header is not read
RetryAfterDelay_IgnoresHeader(r, k) == BASE_DELAY * Pow2(k)
\* int(response.headers.get('Retry-After', BASE_DELAY * (2 ** attempt)))
RetryAfterDelay(r, k) ==
  IF r.hasRetryAfter THEN ParseInt(r.retryAfter) ELSE BASE_DELAY * Pow2(k)
RetryAfterParses(r) == r.hasRetryAfter => IntParses(r.retryAfter)
\* variant: the last attempt compared against one index too many
IsLastAttempt_OffByOne(k) == k = MAX_RETRIES + 1
\* attempt == max_retries
IsLastAttempt(k) == k = MAX_RETRIES
\* range(max_retries + 1) has a value after k
LoopContinues(k) == k + 1 < MAX_RETRIES + 1

StartCall(u) ==
  /\ cpc' = "get" /\ url' = u /\ attempt' = 0 /\ gets' = 0
  /\ hist' = <<>> /\ sleeps' = <<>> /\ delay' = 0 /\ ret' = <<>> /\ err' = NoErr

ResetCall ==
  /\ cpc' = "idle" /\ url' = NoLink /\ attempt' = 0 /\ gets' = 0
  /\ hist' = <<>> /\ sleeps' = <<>> /\ delay' = 0 /\ ret' = <<>> /\ err' = NoErr

GoSleep(d) == cpc' = "sleep" /\ delay' = d /\ UNCHANGED <<ret, err>>
Raise(e) == cpc' = "raised" /\ err' = e /\ UNCHANGED <<ret, delay>>
Return(v) == cpc' = "returned" /\ ret' = v /\ UNCHANGED <<err, delay>>

\* the except clause: re-raise on the last attempt, else back off
ExceptRequestException(e) ==
  IF IsLastAttempt(attempt) THEN Raise(e) ELSE GoSleep(BackoffDelay(attempt))

\* one session.get and the handling of its outcome, up to the next sleep,
\* return or raise
Get ==
  /\ cpc = "get"
  /\ \E r \in Responses(url) :
       /\ gets' = gets + 1
       /\ hist' = Append(hist, r)
       /\ IF r.kind = "net" THEN ExceptRequestException(ConnectionError)
          ELSE IF IsRateLimited(r) THEN
                 IF RetryAfterParses(r) THEN GoSleep(RetryAfterDelay(r, attempt))
                 ELSE Raise(ValueError)
          ELSE IF IsServerError(r) THEN GoSleep(BackoffDelay(attempt))
          ELSE IF RaisesForStatus(r) THEN ExceptRequestException(HTTPError(r.status))
          ELSE Return(<<r.body>>)
  /\ sentAuth' = <<RequestHeaders(headers, NoHeaders)["Authorization"]>>
  /\ UNCHANGED <<url, attempt, sleeps>>
  /\ UNCHANGED pagerVars
  /\ UNCHANGED walkerVars
  /\ UNCHANGED tokenVars /\ UNCHANGED mainVars
  /\ UNCHANGED mediaVars
  /\ UNCHANGED pathVars

\* time.sleep returns; the for loop takes its next value, or ends and the
\* function returns None
Sleep ==
  /\ cpc = "sleep"
  /\ sleeps' = Append(sleeps, delay)
  /\ IF LoopContinues(attempt)
     THEN attempt' = attempt + 1 /\ cpc' = "get" /\ UNCHANGED ret
     ELSE cpc' = "returned" /\ ret' = <<>> /\ UNCHANGED attempt
  /\ UNCHANGED <<url, gets, hist, delay, err>>
  /\ UNCHANGED pagerVars
  /\ UNCHANGED walkerVars
  /\ UNCHANGED tokenVars /\ UNCHANGED mainVars /\ UNCHANGED sentAuth
  /\ UNCHANGED mediaVars
  /\ UNCHANGED pathVars

\* -------------------------------------------------- call_graph_paginated
HasNextLink(data) == data.next # NoLink
\* variant: each page replaces the records accumulated so far
AccumulateResults_Overwrite(acc, data) == data.value
\* results.extend(data.get("value", []))
AccumulateResults(acc, data) == acc \o data.value

StartListing(u) ==
  /\ ppc' = "calling" /\ results' = <<>> /\ served' = <<>> /\ purls' = <<u>>
  /\ perr' = NoErr
  /\ StartCall(u)

\* variant: a failure of the Caller ends the listing with the records
\* accumulated so far
Paginate_ReturnsPartial ==
  /\ ppc = "calling"
  /\ cpc \in {"returned", "raised"}
  /\ IF cpc = "raised" \/ ret = <<>> THEN
       /\ ppc' = "returned" /\ perr' = perr
       /\ UNCHANGED <<results, served, purls>> /\ UNCHANGED callerVars
     ELSE
       LET data == ret[1] IN
       /\ results' = AccumulateResults(results, data)
       /\ served' = Append(served, data)
       /\ perr' = perr
       /\ IF HasNextLink(data)
          THEN ppc' = "calling" /\ purls' = Append(purls, data.next)
               /\ StartCall(data.next)
          ELSE ppc' = "returned" /\ UNCHANGED purls /\ UNCHANGED callerVars
  /\ UNCHANGED walkerVars
  /\ UNCHANGED tokenVars /\ UNCHANGED mainVars /\ UNCHANGED sentAuth
  /\ UNCHANGED mediaVars
  /\ UNCHANGED pathVars
\* the Caller came back: its exception propagates, None has no .get, a dict
\* is accumulated and its continuation link followed
Paginate ==
  /\ ppc = "calling"
  /\ cpc \in {"returned", "raised"}
  /\ IF cpc = "raised" THEN
       /\ ppc' = "raised" /\ perr' = err
       /\ UNCHANGED <<results, served, purls>> /\ UNCHANGED callerVars
     ELSE IF ret = <<>> THEN
       /\ ppc' = "raised" /\ perr' = AttributeError
       /\ UNCHANGED <<results, served, purls>> /\ UNCHANGED callerVars
     ELSE
       LET data == ret[1] IN
       /\ results' = AccumulateResults(results, data)
       /\ served' = Append(served, data)
       /\ perr' = perr
       /\ IF HasNextLink(data)
          THEN ppc' = "calling" /\ purls' = Append(purls, data.next)
               /\ StartCall(data.next)
          ELSE ppc' = "returned" /\ UNCHANGED purls /\ UNCHANGED callerVars
  /\ UNCHANGED walkerVars
  /\ UNCHANGED tokenVars /\ UNCHANGED mainVars /\ UNCHANGED sentAuth
  /\ UNCHANGED mediaVars
  /\ UNCHANGED pathVars

\* ------------------------------------------------------ export_notebooks
Walk ==
  [pc |-> wpc, notebooks |-> notebooks, nb |-> nbIdx, sections |-> sections,
   sec |-> secIdx, pages |-> pages, pg |-> pgIdx]

\* The locals of an inner loop are written before they are read again
\* (sections at line 232, pages at line 245), so the walker clears them
\* when the inner loop ends.

\* variant: the notebooks taken last to first
NextNotebook_Reversed(w) ==
  IF w.nb = 0 /\ Len(w.notebooks) > 0
  THEN [w EXCEPT !.pc = "list_sections", !.nb = Len(w.notebooks),
                 !.sections = <<>>, !.sec = 0]
  ELSE IF w.nb > 1
  THEN [w EXCEPT !.pc = "list_sections", !.nb = w.nb - 1,
                 !.sections = <<>>, !.sec = 0]
  ELSE [w EXCEPT !.pc = "done", !.sections = <<>>, !.sec = 0]
\* for notebook in notebooks: the next notebook, or the end of the walk
NextNotebook(w) ==
  IF w.nb < Len(w.notebooks)
  THEN [w EXCEPT !.pc = "list_sections", !.nb = w.nb + 1,
                 !.sections = <<>>, !.sec = 0]
  ELSE [w EXCEPT !.pc = "done", !.sections = <<>>, !.sec = 0]

\* for section in sections
NextSection(w) ==
  IF w.sec < Len(w.sections)
  THEN [w EXCEPT !.pc = "list_pages", !.sec = w.sec + 1,
                 !.pages = <<>>, !.pg = 0]
  ELSE NextNotebook([w EXCEPT !.pages = <<>>, !.pg = 0])

\* for page in pages
NextPage(w) ==
  IF w.pg < Len(w.pages)
  THEN [w EXCEPT !.pc = "export_page", !.pg = w.pg + 1]
  ELSE NextSection(w)

\* the walker moves to w; a listing position issues its call_graph_paginated
Proceed(w) ==
  /\ wpc' = w.pc /\ notebooks' = w.notebooks /\ nbIdx' = w.nb
  /\ sections' = w.sections /\ secIdx' = w.sec
  /\ pages' = w.pages /\ pgIdx' = w.pg
  /\ IF w.pc = "list_sections" THEN StartListing(SectionsUrl(w.notebooks[w.nb]))
     ELSE IF w.pc = "list_pages" THEN StartListing(PagesUrl(w.sections[w.sec]))
     ELSE /\ ppc' = "idle" /\ results' = <<>> /\ served' = <<>>
          /\ purls' = <<>> /\ perr' = NoErr
          /\ ResetCall

\* main calls export_notebooks once get_token returned
ExportNotebooks ==
  /\ mpc = "auth" /\ gpc = "returned"
  /\ wpc = "start"
  /\ mpc' = "export"
  /\ wpc' = "list_notebooks"
  /\ StartListing(NotebooksUrl)
  /\ UNCHANGED <<notebooks, nbIdx, sections, secIdx, pages, pgIdx, lastExport, werr>>
  /\ UNCHANGED tokenVars /\ UNCHANGED <<clientId, exitCode, sentAuth>>
  /\ UNCHANGED mediaVars
  /\ UNCHANGED pathVars

\* a listing came back to export_notebooks: an exception is logged and
\* re-raised, a list is walked
HandleListing ==
  /\ wpc \in {"list_notebooks", "list_sections", "list_pages"}
  /\ ppc \in {"returned", "raised"}
  /\ IF ppc = "raised" THEN
       /\ wpc' = "failed" /\ werr' = perr
       /\ UNCHANGED <<notebooks, nbIdx, sections, secIdx, pages, pgIdx, lastExport>>
       /\ UNCHANGED pagerVars /\ UNCHANGED callerVars
     ELSE
       /\ UNCHANGED <<lastExport, werr>>
       /\ IF wpc = "list_notebooks"
          THEN Proceed(NextNotebook([Walk EXCEPT !.notebooks = results, !.nb = 0]))
          ELSE IF wpc = "list_sections"
          THEN Proceed(NextSection([Walk EXCEPT !.sections = results, !.sec = 0]))
          ELSE Proceed(NextPage([Walk EXCEPT !.pages = results, !.pg = 0]))
  /\ UNCHANGED tokenVars /\ UNCHANGED mainVars /\ UNCHANGED sentAuth
  /\ UNCHANGED mediaVars
  /\ UNCHANGED pathVars

\* ----------------------------------------------------------- export_page
\* what one export_page meets: whether the page record has an 'id', the
\* response to the content GET, whether the transformation and the file
\* write go through
ExportOutcomes ==
  { [hasId |-> i, response |-> r, transforms |-> t, writes |-> w] :
      i \in BOOLEAN, r \in ContentResponses, t \in BOOLEAN, w \in BOOLEAN }

\* the first exception raised in the try block, NoErr when there is none
ExportPageException(o) ==
  IF ~o.hasId THEN KeyError
  ELSE IF o.response.kind = "net" THEN ConnectionError
  ELSE IF RaisesForStatus(o.response) THEN HTTPError(o.response.status)
  ELSE IF ~o.transforms THEN TransformError
  ELSE IF ~o.writes THEN OSError
  ELSE NoErr

\* variant: export_page catching the request exceptions only
CaughtByExportPage_RequestsOnly(e) == IsRequestException(e)
\* except Exception as e
CaughtByExportPage(e) == e.type \in ExceptionTypes

\* page['id'], the content GET, raise_for_status, the transformation and the
\* file write, inside try/except Exception; an exception that is not caught
\* reaches the except clause of export_notebooks
ExportPage ==
  /\ wpc = "export_page"
  /\ \E o \in ExportOutcomes :
       LET e == ExportPageException(o) IN
       /\ sentAuth' = IF o.hasId
                      THEN <<RequestHeaders(headers, AcceptHtml)["Authorization"]>>
                      ELSE sentAuth
       /\ IF e = NoErr \/ CaughtByExportPage(e)
          THEN /\ lastExport' = IF e = NoErr THEN "written" ELSE "failed"
               /\ werr' = werr
               /\ Proceed(NextPage(Walk))
          ELSE /\ wpc' = "failed" /\ werr' = e
               /\ UNCHANGED <<notebooks, nbIdx, sections, secIdx, pages, pgIdx,
                              lastExport>>
               /\ UNCHANGED pagerVars /\ UNCHANGED callerVars
  /\ UNCHANGED tokenVars /\ UNCHANGED mainVars
  /\ UNCHANGED mediaVars
  /\ UNCHANGED pathVars

\* -------------------------------------------------------- download_media
\* variant: download_media catching the request exceptions only
CaughtByDownloadMedia_RequestsOnly(e) == IsRequestException(e)
\* except Exception as e
CaughtByDownloadMedia(e) == e.type \in ExceptionTypes

\* variant: a request that failed is issued again while attempts remain
DownloadFails_Retries(e) ==
  /\ derr' = e
  /\ IF IsRequestException(e) /\ dgets < MAX_RETRIES
     THEN dpc' = "get" /\ UNCHANGED dret
     ELSE dpc' = "returned" /\ dret' = <<>>
\* an exception in the try block: logged and "" returned, or let through
DownloadFails(e) ==
  /\ derr' = e
  /\ IF CaughtByDownloadMedia(e)
     THEN dpc' = "returned" /\ dret' = <<>>
     ELSE dpc' = "raised" /\ UNCHANGED dret

\* A file is its name and whether its content is the whole body of the
\* response it was written from.

\* open(file_path, 'wb') and f.write(chunk): the file named name is created
\* or overwritten; it holds k of the n chunks of the body
Stored(fs, name, k, n) ==
  { f \in fs : f.name # name } \cup {[name |-> name, whole |-> (k = n)]}

\* the GET, raise_for_status, the filename and the open
MediaGet ==
  /\ dpc = "get"
  /\ sentAuth' = IF HasScheme(durl)
                 THEN <<RequestHeaders(headers, NoHeaders)["Authorization"]>>
                 ELSE sentAuth
  /\ \E r \in MediaResponses, opens \in BOOLEAN :
       IF ~HasScheme(durl) THEN
         \* session.get raises before anything is sent
         DownloadFails(MissingSchema)
         /\ UNCHANGED <<dctype, dname, total, written, files>>
       ELSE IF r.kind = "net" THEN
         DownloadFails(ConnectionError)
         /\ UNCHANGED <<dctype, dname, total, written, files>>
       ELSE IF RaisesForStatus(r) THEN
         DownloadFails(HTTPError(r.status))
         /\ UNCHANGED <<dctype, dname, total, written, files>>
       ELSE IF ~opens THEN
         DownloadFails(OSError)
         /\ dctype' = r.ctype
         /\ dname' = MediaFilename(durl, r.ctype, hashOf[durl])
         /\ UNCHANGED <<total, written, files>>
       ELSE
         /\ dpc' = "streaming"
         /\ dctype' = r.ctype
         /\ dname' = MediaFilename(durl, r.ctype, hashOf[durl])
         /\ total' = r.chunks /\ written' = 0
         /\ files' = Stored(files, dname', 0, r.chunks)
         /\ UNCHANGED <<dret, derr>>
  /\ dgets' = IF HasScheme(durl) THEN dgets + 1 ELSE dgets
  /\ UNCHANGED <<durl, hashOf>> /\ UNCHANGED htmlVars
  /\ UNCHANGED callerVars /\ UNCHANGED pagerVars /\ UNCHANGED walkerVars
  /\ UNCHANGED tokenVars /\ UNCHANGED mainVars
  /\ UNCHANGED pathVars

\* one turn of the iter_content loop: the next chunk is read and written,
\* or the read or the write fails; after the last chunk the file is closed
\* and the filename returned
MediaChunk ==
  /\ dpc = "streaming"
  /\ IF written < total
     THEN \E o \in {"written", "read fails", "write fails"} :
            IF o = "written"
            THEN /\ written' = written + 1
                 /\ files' = Stored(files, dname, written + 1, total)
                 /\ UNCHANGED <<dpc, dret, derr>>
            ELSE /\ DownloadFails(IF o = "read fails" THEN ConnectionError
                                  ELSE OSError)
                 /\ UNCHANGED <<written, files>>
     ELSE /\ dpc' = "returned" /\ dret' = dname
          /\ UNCHANGED <<written, files, derr>>
  /\ UNCHANGED <<durl, dctype, dname, total, hashOf, sentAuth, dgets>>
  /\ UNCHANGED htmlVars
  /\ UNCHANGED callerVars /\ UNCHANGED pagerVars /\ UNCHANGED walkerVars
  /\ UNCHANGED tokenVars /\ UNCHANGED mainVars
  /\ UNCHANGED pathVars

\* a client of the exporter (the tests of download_media) calls
\* download_media with a URL
DownloadClient ==
  /\ hpc = "idle"
  /\ dpc \in {"idle", "returned"}
  /\ Len(fetched) < MaxDownloads
  /\ \E u \in Urls :
       /\ dpc' = "get" /\ durl' = u
       /\ fetched' = Append(fetched, u)
  /\ dctype' = <<>> /\ dname' = <<>> /\ total' = 0 /\ written' = 0
  /\ dret' = <<>> /\ derr' = NoErr /\ dgets' = 0
  /\ UNCHANGED <<hpc, doc, html, matches, mIdx, rets, files, hashOf, sentAuth,
                 cgets, cerr>>
  /\ UNCHANGED callerVars /\ UNCHANGED pagerVars /\ UNCHANGED walkerVars
  /\ UNCHANGED tokenVars /\ UNCHANGED mainVars
  /\ UNCHANGED pathVars

\* ------------------------------------------ the content GET of export_page
\* export_page, lines 184-189: session.get with Accept: text/html and
\* raise_for_status; an exception is logged by the except clause and the
\* page is left, a body goes to process_html_content
ContentGet ==
  /\ hpc = "fetch"
  /\ cgets' = cgets + 1
  /\ sentAuth' = <<RequestHeaders(headers, AcceptHtml)["Authorization"]>>
  /\ \E r \in ContentResponses :
       IF r.kind = "net"
       THEN hpc' = "skipped" /\ cerr' = ConnectionError
       ELSE IF RaisesForStatus(r)
       THEN hpc' = "skipped" /\ cerr' = HTTPError(r.status)
       ELSE hpc' = "start" /\ cerr' = cerr
  /\ UNCHANGED <<doc, html, matches, mIdx, rets, fetched, hashOf>>
  /\ UNCHANGED downloadVars
  /\ UNCHANGED callerVars /\ UNCHANGED pagerVars /\ UNCHANGED walkerVars
  /\ UNCHANGED tokenVars /\ UNCHANGED mainVars
  /\ UNCHANGED pathVars

\* --------------------------------------------------- process_html_content
\* if filename: html = html.replace(img_url, filename)
Substituted(h, u, filename) ==
  IF filename # <<>> THEN Replace(h, u, filename) ELSE h

\* re.finditer(img_pattern, html)
ProcessHtml ==
  /\ hpc = "start"
  /\ hpc' = "loop"
  /\ matches' = ImgSrcs(html) /\ mIdx' = 0 /\ rets' = <<>> /\ fetched' = <<>>
  /\ UNCHANGED <<doc, html, hashOf, sentAuth, cgets, cerr>>
  /\ UNCHANGED downloadVars
  /\ UNCHANGED callerVars /\ UNCHANGED pagerVars /\ UNCHANGED walkerVars
  /\ UNCHANGED tokenVars /\ UNCHANGED mainVars
  /\ UNCHANGED pathVars

\* the loop takes its next match: an absolute URL is downloaded, another
\* src is passed over; after the last match the html goes to h2m.handle
NextImage ==
  /\ hpc = "loop"
  /\ IF mIdx < Len(matches)
     THEN LET img_url == matches[mIdx + 1] IN
          /\ mIdx' = mIdx + 1
          /\ IF StartsWithHttp(img_url)
             THEN /\ hpc' = "download" /\ dpc' = "get" /\ durl' = img_url
                  /\ fetched' = Append(fetched, img_url)
                  /\ UNCHANGED rets
             ELSE /\ rets' = Append(rets, <<>>)
                  /\ UNCHANGED <<hpc, dpc, durl, fetched>>
     ELSE /\ hpc' = "converted"
          /\ UNCHANGED <<mIdx, rets, dpc, durl, fetched>>
  /\ UNCHANGED <<doc, html, matches, hashOf, sentAuth, cgets, cerr>>
  /\ UNCHANGED <<dctype, dname, total, written, dret, derr, files, dgets>>
  /\ UNCHANGED callerVars /\ UNCHANGED pagerVars /\ UNCHANGED walkerVars
  /\ UNCHANGED tokenVars /\ UNCHANGED mainVars
  /\ UNCHANGED pathVars

\* download_media came back: its exception propagates, a filename is
\* substituted for the URL in the whole html
AfterDownload ==
  /\ hpc = "download"
  /\ dpc \in {"returned", "raised"}
  /\ IF dpc = "raised"
     THEN /\ hpc' = "raised"
          /\ UNCHANGED <<html, rets>> /\ UNCHANGED downloadVars
     ELSE /\ hpc' = "loop"
          /\ rets' = Append(rets, dret)
          /\ html' = Substituted(html, durl, dret)
          /\ dpc' = "idle" /\ durl' = <<>> /\ dctype' = <<>> /\ dname' = <<>>
          /\ total' = 0 /\ written' = 0 /\ dret' = <<>> /\ derr' = NoErr
          /\ dgets' = 0
          /\ UNCHANGED files
  /\ UNCHANGED <<doc, matches, mIdx, hashOf, sentAuth, fetched, cgets, cerr>>
  /\ UNCHANGED callerVars /\ UNCHANGED pagerVars /\ UNCHANGED walkerVars
  /\ UNCHANGED tokenVars /\ UNCHANGED mainVars
  /\ UNCHANGED pathVars

\* ----------------------------------------------------------- sanitization
\* re.sub on a name (lines 197, 224, 237)
SanitizeName ==
  /\ spc = "start"
  /\ spc' = "done"
  /\ safeName' = Sanitize(rawName)
  /\ UNCHANGED <<rawName, tpc, nbComp, secComp, nbDir, secDir, page, stem, dirs,
                 mdFiles, pageNo, pagesOk>>
  /\ UNCHANGED mediaVars /\ UNCHANGED sentAuth
  /\ UNCHANGED callerVars /\ UNCHANGED pagerVars /\ UNCHANGED walkerVars
  /\ UNCHANGED tokenVars /\ UNCHANGED mainVars

\* ------------------------------------------------- directories and files
\* The walk of one notebook, one section of it and the pages of the section,
\* the listings and the page content given.

\* export_notebooks, lines 222-226: the directory of a notebook
EnterNotebook ==
  /\ tpc = "notebook"
  /\ \E notebook \in Items, made \in BOOLEAN :
       LET safe_notebook_name == Sanitize(DisplayName(notebook))
           notebook_path == Join(OutputDir, safe_notebook_name)
       IN /\ nbComp' = safe_notebook_name
          /\ nbDir' = notebook_path
          /\ IF made
             THEN /\ dirs' = dirs \cup Mkdir(notebook_path)
                  /\ tpc' = "section"
             ELSE \* mkdir raises OSError, which export_notebooks re-raises
                  /\ dirs' = dirs
                  /\ tpc' = "failed"
  /\ UNCHANGED <<spc, rawName, safeName, secComp, secDir, page, stem, mdFiles,
                 pageNo, pagesOk>>
  /\ UNCHANGED mediaVars /\ UNCHANGED sentAuth
  /\ UNCHANGED callerVars /\ UNCHANGED pagerVars /\ UNCHANGED walkerVars
  /\ UNCHANGED tokenVars /\ UNCHANGED mainVars

\* export_notebooks, lines 235-239: the directory of a section
EnterSection ==
  /\ tpc = "section"
  /\ \E section \in Items, made \in BOOLEAN :
       LET safe_section_name == Sanitize(DisplayName(section))
           section_path == Join(nbDir, safe_section_name)
       IN /\ secComp' = safe_section_name
          /\ secDir' = section_path
          /\ IF made
             THEN /\ dirs' = dirs \cup Mkdir(section_path)
                  /\ tpc' = "page"
             ELSE /\ dirs' = dirs
                  /\ tpc' = "failed"
  /\ UNCHANGED <<spc, rawName, safeName, nbComp, nbDir, page, stem, mdFiles,
                 pageNo, pagesOk>>
  /\ UNCHANGED mediaVars /\ UNCHANGED sentAuth
  /\ UNCHANGED callerVars /\ UNCHANGED pagerVars /\ UNCHANGED walkerVars
  /\ UNCHANGED tokenVars /\ UNCHANGED mainVars

\* the Markdown file of a page
MdFile(dir, safe_title) == Join(dir, safe_title \o <<".md">>)

\* export_page, lines 184-212, for the next page of the section: the content
\* is fetched and converted or not, the file is opened and written or not
WritePage ==
  /\ tpc = "page"
  /\ pageNo < MaxWrites
  /\ \E p \in PageRecords(pageNo + 1), got \in BOOLEAN, opened \in BOOLEAN :
       /\ page' = p
       /\ pageNo' = pageNo + 1
       /\ IF got
          THEN /\ stem' = SafeTitle(p)
               /\ IF opened
                  THEN LET md_file == MdFile(secDir, SafeTitle(p))
                       IN /\ mdFiles' =
                               {f \in mdFiles : f.path # Resolve(md_file)}
                                 \cup {[path |-> Resolve(md_file), page |-> p.id]}
                          /\ pagesOk' = pagesOk \cup {p.id}
                  ELSE UNCHANGED <<mdFiles, pagesOk>>
          ELSE \* safe_title is not assigned in this call
               /\ stem' = <<>>
               /\ UNCHANGED <<mdFiles, pagesOk>>
  /\ UNCHANGED <<spc, rawName, safeName, tpc, nbComp, secComp, nbDir, secDir, dirs>>
  /\ UNCHANGED mediaVars /\ UNCHANGED sentAuth
  /\ UNCHANGED callerVars /\ UNCHANGED pagerVars /\ UNCHANGED walkerVars
  /\ UNCHANGED tokenVars /\ UNCHANGED mainVars

\* export_notebooks, line 248: the pages of the section are through
SectionDone ==
  /\ tpc = "page"
  /\ tpc' = "done"
  /\ UNCHANGED <<spc, rawName, safeName, nbComp, secComp, nbDir, secDir, page, stem,
                 dirs, mdFiles, pageNo, pagesOk>>
  /\ UNCHANGED mediaVars /\ UNCHANGED sentAuth
  /\ UNCHANGED callerVars /\ UNCHANGED pagerVars /\ UNCHANGED walkerVars
  /\ UNCHANGED tokenVars /\ UNCHANGED mainVars

\* ------------------------------------------------------------------ main
\* variant: main returning normally whatever happened
ExitStatus_AlwaysZero(failed) == 0
\* sys.exit(1) in the except clauses, a normal return otherwise
ExitStatus(failed) == IF failed THEN 1 ELSE 0

\* the CLIENT_ID check; a configured main constructs the exporter and calls
\* get_token
MainStart ==
  /\ mpc = "start"
  /\ IF clientId = PLACEHOLDER_CLIENT_ID
     THEN /\ mpc' = "exited" /\ exitCode' = 1
          /\ UNCHANGED <<gpc, calls>>
     ELSE /\ mpc' = "auth" /\ gpc' = "called" /\ calls' = calls + 1
          /\ UNCHANGED exitCode
  /\ UNCHANGED <<token, headers, flows, polls, lastFlow, lastResult, tret, terr>>
  /\ UNCHANGED <<clientId, sentAuth>>
  /\ UNCHANGED callerVars /\ UNCHANGED pagerVars /\ UNCHANGED walkerVars
  /\ UNCHANGED mediaVars
  /\ UNCHANGED pathVars

\* get_token or export_notebooks raised, or export_notebooks returned
MainExit ==
  /\ IF mpc = "auth" THEN gpc = "raised"
     ELSE mpc = "export" /\ wpc \in {"done", "failed"}
  /\ mpc' = "exited"
  /\ exitCode' = ExitStatus(gpc = "raised" \/ wpc = "failed")
  /\ UNCHANGED tokenVars /\ UNCHANGED <<clientId, sentAuth>>
  /\ UNCHANGED callerVars /\ UNCHANGED pagerVars /\ UNCHANGED walkerVars
  /\ UNCHANGED mediaVars
  /\ UNCHANGED pathVars

Next ==
  \/ MainStart
  \/ GetTokenInitiate
  \/ GetTokenAcquire
  \/ ExportNotebooks
  \/ Get
  \/ Sleep
  \/ Paginate
  \/ HandleListing
  \/ ExportPage
  \/ MainExit

Spec == Init /\ [][Next]_vars

\* get_token called by a client of the exporter, as its tests call it
InitToken ==
  /\ InitExporter
  /\ NoTransform
  /\ NoPaths
  /\ mpc = "client"
  /\ clientId \in ClientIds \ {PLACEHOLDER_CLIENT_ID}

NextToken ==
  \/ TokenClient
  \/ GetTokenInitiate
  \/ GetTokenAcquire

SpecToken == InitToken /\ [][NextToken]_vars

\* get_token was called once and returned the token of the first exchange
Authenticated ==
  /\ gpc = "returned" /\ token = <<AccessToken(1)>>
  /\ headers = UpdateHeaders(InitialHeaders, AccessToken(1))
  /\ calls = 1 /\ flows = 1 /\ polls = 1
  /\ lastFlow = [user_code |-> TRUE]
  /\ lastResult = [hasToken |-> TRUE, token |-> AccessToken(1), hasDesc |-> FALSE,
                   desc |-> ""]
  /\ tret = <<AccessToken(1)>> /\ terr = NoAuthErr

\* process_html_content called on the HTML body of a page, by an exporter
\* that has its token
InitMedia ==
  /\ IdleExporter
  /\ Authenticated
  /\ NoPaths
  /\ mpc = "client"
  /\ clientId \in ClientIds \ {PLACEHOLDER_CLIENT_ID}
  /\ hpc = "start"
  /\ doc \in { Html(d) : d \in Documents }
  /\ html = doc
  /\ hashOf \in HashFunctions

NextMedia ==
  \/ ProcessHtml
  \/ NextImage
  \/ MediaGet
  \/ MediaChunk
  \/ AfterDownload

SpecMedia == InitMedia /\ [][NextMedia]_vars

\* export_page called on a page of at most MaxFetchImages img tags, followed
\* from its content GET to the end of process_html_content
InitFetch ==
  /\ IdleExporter
  /\ Authenticated
  /\ NoPaths
  /\ mpc = "client"
  /\ clientId \in ClientIds \ {PLACEHOLDER_CLIENT_ID}
  /\ hpc = "fetch"
  /\ doc \in { Html(d) : d \in UNION { [1..n -> Urls] : n \in 0..MaxFetchImages } }
  /\ html = doc
  /\ hashOf \in HashFunctions

NextFetch ==
  \/ ContentGet
  \/ ProcessHtml
  \/ NextImage
  \/ MediaGet
  \/ MediaChunk
  \/ AfterDownload

SpecFetch == InitFetch /\ [][NextFetch]_vars

\* download_media called on its own, as its tests call it, at most
\* MaxDownloads times into one directory
InitDownload ==
  /\ InitExporter
  /\ NoPaths
  /\ mpc = "client"
  /\ clientId \in ClientIds \ {PLACEHOLDER_CLIENT_ID}
  /\ hpc = "idle" /\ doc = <<>> /\ html = <<>>
  /\ hashOf \in HashFunctions

NextDownload ==
  \/ DownloadClient
  \/ MediaGet
  \/ MediaChunk

SpecDownload == InitDownload /\ [][NextDownload]_vars

\* the sanitization applied to a name of the remote side
InitSanitize ==
  /\ InitExporter
  /\ NoTransform
  /\ mpc = "client"
  /\ clientId \in ClientIds \ {PLACEHOLDER_CLIENT_ID}
  /\ spc = "start" /\ rawName \in Names(MaxNameLen) /\ safeName = <<>>
  /\ tpc = "idle" /\ nbComp = <<>> /\ secComp = <<>>
  /\ nbDir = <<>> /\ secDir = <<>>
  /\ page = NoPage /\ stem = <<>>
  /\ dirs = {} /\ mdFiles = {} /\ pageNo = 0 /\ pagesOk = {}

NextSanitize == SanitizeName

SpecSanitize == InitSanitize /\ [][NextSanitize]_vars

\* the walk, about to make the directory of a notebook
InitPaths ==
  /\ InitExporter
  /\ NoTransform
  /\ mpc = "client"
  /\ clientId \in ClientIds \ {PLACEHOLDER_CLIENT_ID}
  /\ spc = "idle" /\ rawName = <<>> /\ safeName = <<>>
  /\ tpc = "notebook" /\ nbComp = <<>> /\ secComp = <<>>
  /\ nbDir = <<>> /\ secDir = <<>>
  /\ page = NoPage /\ stem = <<>>
  /\ dirs = {} /\ mdFiles = {} /\ pageNo = 0 /\ pagesOk = {}

NextPaths ==
  \/ EnterNotebook
  \/ EnterSection
  \/ WritePage
  \/ SectionDone

SpecPaths == InitPaths /\ [][NextPaths]_vars

\* ------------------------------------------------------------- properties
Last(s) == s[Len(s)]
Is2xx(r) == r.kind = "http" /\ r.status >= 200 /\ r.status < 300
IsIntegerRateLimit(r) ==
  r.kind = "http" /\ r.status = 429 /\ r.hasRetryAfter /\ r.retryAfter = <<"1", "2">>
IsBareRateLimit(r) == r.kind = "http" /\ r.status = 429 /\ ~r.hasRetryAfter
IsTransient(r) == r.kind = "net" \/ (r.kind = "http" /\ r.status >= 500)
CallEnded == cpc \in {"returned", "raised"}
\* base_delay * 2^k for k = 0..3 with the default base_delay of 1 second
DefaultBackoff == <<1, 2, 4, 8>>

\* C1: an attempt that receives a non-2xx status other than 429 and below
\* 500 ends the call at once with an error carrying that status; no sleep
\* follows it.
C1_ClientErrorFailsImmediately ==
  (cpc # "idle" /\ hist # <<>> /\ Last(hist).kind = "http"
     /\ ~Is2xx(Last(hist)) /\ Last(hist).status # 429 /\ Last(hist).status < 500)
  => (cpc = "raised" /\ err = HTTPError(Last(hist).status)
        /\ Len(sleeps) = Len(hist) - 1)

\* C2: a call whose max_retries+1 attempts all received a status >= 500 ends
\* by raising, after exactly max_retries+1 GETs, and never by returning.
C2_ServerErrorExhaustionRaises ==
  (CallEnded /\ Len(hist) = MAX_RETRIES + 1
     /\ \A i \in 1..Len(hist) : hist[i].kind = "http" /\ hist[i].status >= 500)
  => (cpc = "raised" /\ gets = MAX_RETRIES + 1)

\* C3: 429 responses carrying Retry-After consume no retry budget: a call
\* that has received nothing but such responses, however many, is still
\* retrying.
C3_RateLimitKeepsBudget ==
  (cpc # "idle" /\ hist # <<>> /\ \A i \in 1..Len(hist) : IsIntegerRateLimit(hist[i]))
  => cpc \in {"sleep", "get"}

\* C4: every 429 response carrying Retry-After: N (here N = 12) is followed
\* by exactly one sleep, of exactly N seconds, before the next GET; a 429
\* without the header is followed by a sleep of base_delay * 2^attempt.
C4_RateLimitDelay(i) ==
  IF hist[i].hasRetryAfter THEN 12 ELSE DefaultBackoff[i]
C4_RetryAfterSleep ==
  /\ Len(sleeps) <= Len(hist)
  /\ cpc = "get" => Len(sleeps) = Len(hist)
  /\ \A i \in 1..Len(hist) :
       (IsIntegerRateLimit(hist[i]) \/ IsBareRateLimit(hist[i]))
       => /\ i <= Len(sleeps) => sleeps[i] = C4_RateLimitDelay(i)
          /\ i > Len(sleeps) =>
               (i = Len(hist) /\ cpc = "sleep" /\ delay = C4_RateLimitDelay(i))

C4_Witness ==
  /\ cpc = "get" /\ Len(hist) = 3
  /\ IsTransient(hist[1])
  /\ IsIntegerRateLimit(hist[2]) /\ sleeps[2] = 12
  /\ IsBareRateLimit(hist[3]) /\ sleeps[3] = 4

\* C5: the attempt index starts at 0 and grows by one per GET, and the sleep
\* after a status >= 500 or a network failure at attempt index k is
\* base_delay * 2^k, whatever the earlier attempts received.
C5_AttemptIndexedBackoff ==
  /\ gets = Len(hist)
  /\ cpc = "get" => attempt = gets
  /\ cpc \in {"sleep", "returned", "raised"} => attempt = gets - 1
  /\ \A i \in 1..Len(hist) :
       IsTransient(hist[i])
       => /\ i <= Len(sleeps) => sleeps[i] = DefaultBackoff[i]
          /\ (i > Len(sleeps) /\ cpc = "sleep") => delay = DefaultBackoff[i]

C5_Witness ==
  /\ Len(hist) = 4 /\ Len(sleeps) = 4
  /\ IsIntegerRateLimit(hist[1])
  /\ hist[2].kind = "net" /\ sleeps[2] = 2
  /\ hist[3].kind = "http" /\ hist[3].status = 500 /\ sleeps[3] = 4
  /\ hist[4].kind = "http" /\ hist[4].status = 500 /\ sleeps[4] = 8

\* C6: a network-level failure is followed by a sleep of
\* base_delay * 2^attempt and a retry on every attempt but the last; on the
\* last permitted attempt it is propagated without a sleep, so a persistent
\* network failure costs max_retries+1 GETs and max_retries sleeps.
C6_NetworkFailureBudget ==
  (cpc # "idle" /\ hist # <<>> /\ Last(hist).kind = "net")
  => IF Len(hist) = MAX_RETRIES + 1
     THEN /\ cpc = "raised" /\ err = ConnectionError
          /\ gets = MAX_RETRIES + 1 /\ Len(sleeps) = MAX_RETRIES
     ELSE /\ Len(hist) < MAX_RETRIES + 1
          /\ \/ cpc = "sleep" /\ delay = DefaultBackoff[Len(hist)]
                  /\ Len(sleeps) = Len(hist) - 1
             \/ cpc = "get" /\ Len(sleeps) = Len(hist)
                  /\ Last(sleeps) = DefaultBackoff[Len(hist)]

C6_Witness ==
  /\ cpc = "raised" /\ err = ConnectionError
  /\ Len(hist) = MAX_RETRIES + 1
  /\ \A i \in 1..Len(hist) : hist[i].kind = "net"
  /\ sleeps = <<1, 2, 4>>

\* C7: one call issues at least 1 and at most max_retries+1 GETs, and a 2xx
\* response is the last event of its call: no GET and no sleep follows it
\* and the call returns its parsed body; a 2xx on the first attempt means
\* one GET and no sleep.
C7_GetBudgetAndSuccess ==
  /\ gets <= MAX_RETRIES + 1
  /\ CallEnded => gets >= 1
  /\ \A i \in 1..Len(hist) :
       Is2xx(hist[i])
       => /\ i = Len(hist) /\ gets = i /\ Len(sleeps) = i - 1
          /\ cpc = "returned" /\ ret = <<hist[i].body>>

C7_Witness ==
  /\ cpc = "returned" /\ gets = 1 /\ sleeps = <<>>
  /\ Len(hist) = 1 /\ Is2xx(hist[1])
  /\ ret = <<hist[1].body>> /\ Len(ret[1].value) = MaxNotebooks

\* the records of the dicts ds, concatenated in order
RECURSIVE Concatenation(_)
Concatenation(ds) ==
  IF ds = <<>> THEN <<>> ELSE Head(ds).value \o Concatenation(Tail(ds))

\* the url export_notebooks passes to the listing it is waiting for
ListingUrl ==
  IF wpc = "list_notebooks" THEN NotebooksUrl
  ELSE IF wpc = "list_sections" THEN SectionsUrl(notebooks[nbIdx])
  ELSE PagesUrl(sections[secIdx])

\* C8: for a listing served as pages P1..Pn, each but the last carrying a
\* continuation link, call_graph_paginated returns the concatenation of the
\* records of P1..Pn in response order after exactly n Caller invocations,
\* the first on its url argument and the i-th on the link of page i-1, and
\* it stops at the first page without a link.
C8_PaginationConcatenates ==
  (ppc = "returned")
  => /\ results = Concatenation(served)
     /\ Len(served) >= 1
     /\ Len(purls) = Len(served)
     /\ purls[1] = ListingUrl
     /\ \A i \in 2..Len(purls) : purls[i] = served[i - 1].next
     /\ \A i \in 1..(Len(served) - 1) : served[i].next # NoLink
     /\ Last(served).next = NoLink

C8_Witness ==
  /\ ppc = "returned" /\ Len(served) = MaxPages
  /\ \A i \in 1..Len(served) : served[i].value # <<>>
  /\ Len(results) = MaxNotebooks
  /\ results[1] # results[2]

\* C9: call_graph_paginated never fails on its own: an error that leaves it
\* was raised by a call_graph_with_retry invocation it made.
C9_PaginatorNeverFailsOnItsOwn ==
  (ppc = "raised") => (cpc = "raised" /\ perr = err)

\* C10: a section or page listing that fails with a request error abandons
\* only its branch and the walker goes on to the next sibling; only the
\* top-level notebook listing aborts the run.  So the run is never aborted
\* by a request error while a notebook of the listing is still to be walked.
C10_OnlyTopLevelListingAborts ==
  (wpc = "failed" /\ IsRequestException(werr)) => (nbIdx = Len(notebooks))

\* the position export_notebooks is at after the page at pgIdx, spelled out
\* loop by loop
AfterPage ==
  IF pgIdx < Len(pages)
    THEN wpc' = "export_page" /\ pgIdx' = pgIdx + 1 /\ pages' = pages
         /\ secIdx' = secIdx /\ nbIdx' = nbIdx
  ELSE IF secIdx < Len(sections)
    THEN wpc' = "list_pages" /\ secIdx' = secIdx + 1 /\ sections' = sections
         /\ nbIdx' = nbIdx /\ url' = PagesUrl(sections[secIdx + 1])
  ELSE IF nbIdx < Len(notebooks)
    THEN wpc' = "list_sections" /\ nbIdx' = nbIdx + 1
         /\ url' = SectionsUrl(notebooks[nbIdx + 1])
  ELSE wpc' = "done"

\* C11: export_page never raises: whatever fails for a page (a missing id,
\* the content fetch, the transformation, the file write), the walk is not
\* failed by it and goes on to the next page of the section, else the next
\* section, else the next notebook, in listing order.
C11_PageFailureIsContained ==
  [][wpc = "export_page" =>
       /\ wpc' # "failed" /\ werr' = werr /\ notebooks' = notebooks
       /\ AfterPage]_vars

\* a page failed and the next page of the same section is being attempted
C11_Witness ==
  /\ wpc = "export_page" /\ pgIdx = 2 /\ lastExport = "failed"
  /\ nbIdx < Len(notebooks)

\* C12: once a get_token call has succeeded, every later call returns the
\* cached token without initiating a device flow, without polling and
\* without touching the session headers; the cached token never changes.
C12_TokenIsWriteOnce ==
  [][token # <<>> =>
       /\ token' = token /\ headers' = headers
       /\ flows' = flows /\ polls' = polls
       /\ (gpc' = "returned" => tret' = token)]_vars

\* a call after the successful one returned the cached token
C12_Witness ==
  /\ calls >= 2 /\ flows = 1 /\ polls = 1
  /\ gpc = "returned" /\ token # <<>> /\ tret = token

\* C13: a get_token that raised left the token unset and the session
\* headers as they were; without a user code it raised 'Device code flow
\* failed' and the flow was never polled; without an access token it raised
\* 'Failed to acquire token' with the provider's error description.
C13_FailedAuthChangesNothing ==
  gpc = "raised" =>
    /\ token = <<>> /\ headers = InitialHeaders
    /\ terr.type = "RuntimeError"
    /\ IF ~lastFlow.user_code
       THEN terr.msg = "Device code flow failed" /\ polls < flows
       ELSE /\ terr.msg = "Failed to acquire token"
            /\ ~lastResult.hasToken
            /\ terr.detail = IF lastResult.hasDesc THEN lastResult.desc
                              ELSE "Unknown error"

\* the provider denied the exchange with a description
C13_Witness ==
  /\ gpc = "raised" /\ lastFlow.user_code /\ polls = flows
  /\ terr.detail = "User denied access"

\* C14: after a successful exchange get_token returned the token, cached it
\* and changed the session headers by the Authorization header only.
C14_OnlyAuthorizationSet ==
  gpc = "returned" =>
    /\ tret = token
    /\ headers = [InitialHeaders EXCEPT !["Authorization"] = Bearer(token[1])]

\* C15: no GET is issued, and the walk is not started, unless get_token
\* has returned; every GET carries Authorization: Bearer <cached token>.
C15_GetsCarryBearerToken ==
  /\ gpc # "returned" => (sentAuth = <<>> /\ wpc = "start" /\ cpc = "idle")
  /\ sentAuth # <<>> => (token # <<>> /\ sentAuth = <<Bearer(token[1])>>)

\* a page content GET went out with the token of the run
C15_Witness ==
  /\ lastExport = "written" /\ token = <<AccessToken(1)>>
  /\ sentAuth = <<Bearer(AccessToken(1))>>

\* get_token or export_notebooks raised and main has not exited yet
Fatal == mpc # "exited" /\ (gpc = "raised" \/ wpc = "failed")

\* C16: after a fatal error the only step is the exit with a non-zero
\* status, without a page export or a GET; an exit with status zero is an
\* exit after the whole walk; nothing happens after the exit.
C16_FatalErrorExitsNonZero ==
  [][/\ Fatal => /\ mpc' = "exited" /\ exitCode' > 0
                 /\ lastExport' = lastExport /\ sentAuth' = sentAuth
     /\ exitCode' = 0 => (wpc = "done" /\ wpc' = "done")
     /\ mpc # "exited"]_vars

\* the notebooks listing failed and the process has exited with status 1
C16_Witness ==
  /\ mpc = "exited" /\ exitCode = 1
  /\ wpc = "failed" /\ purls = <<NotebooksUrl>>

\* C17: download_media never raises; whenever an exception was met at any
\* step (the GET, the status, the open, the read of a chunk, the write of a
\* chunk) it returned ""; it returned a filename only with every chunk of
\* the body written to the file of that name.
C17_DownloadNeverRaises ==
  /\ dpc # "raised" /\ hpc # "raised"
  /\ dpc = "returned" =>
       /\ derr # NoErr => dret = <<>>
       /\ dret # <<>> =>
            /\ derr = NoErr /\ written = total
            /\ [name |-> dret, whole |-> TRUE] \in files

\* the read of a chunk failed after the file was opened
C17_Witness ==
  /\ dpc = "returned" /\ dret = <<>> /\ derr = ConnectionError
  /\ dname # <<>> /\ written < total

\* the type/subtype of a content-type header, without its parameters
MediaTypeOf(ct) == IF Len(ct) >= 3 THEN SubSeq(ct, 1, 3) ELSE ct

\* the filename the claim names for URL u, content type ct and hash h
ClaimedFilename(u, ct, h) ==
  LET basename == AfterLastSlash(UrlPath(u))
      type == MediaTypeOf(ct) IN
  IF basename # <<>> /\ HasDot(basename) THEN basename
  ELSE IF Len(type) = 3 /\ type[1] = "image" /\ type[2] = "/"
       THEN <<"image_", ToString(h % HASH_MODULUS), ".", type[3]>>
       ELSE <<"media_", ToString(h % HASH_MODULUS), ".bin">>

\* C18: a successful download_media returned the basename of the URL path
\* when it is non-empty and has a '.', else image_<hash>.<subtype> for a
\* content type image/<subtype>, else media_<hash>.bin, and the file of
\* that name holds the body.
C18_FilenameDerivation ==
  (dpc = "returned" /\ dret # <<>>) =>
    /\ dret = ClaimedFilename(durl, dctype, hashOf[durl])
    /\ [name |-> dret, whole |-> TRUE] \in files

\* str.count(p)
RECURSIVE Count(_, _)
Count(s, p) ==
  IF Len(s) < Len(p) \/ s = <<>> THEN 0
  ELSE IF OccursAt(s, p, 1)
       THEN 1 + Count(SubSeq(s, Len(p) + 1, Len(s)), p)
       ELSE Count(Tail(s), p)

\* the matches whose src is u
RefsTo(u) == { i \in 1..Len(matches) : matches[i] = u }
Transformed == hpc = "converted"

\* C19: for a URL referenced by n >= 2 img tags whose downloads succeeded
\* with one filename, the HTML handed to the conversion has no occurrence
\* of the URL and n occurrences of the filename.
C19_EveryReferenceSubstituted ==
  Transformed =>
    \A u \in Urls :
      LET refs == RefsTo(u) IN
      (/\ Cardinality(refs) >= 2
       /\ \A i \in refs : rets[i] # <<>>
       /\ \A i, j \in refs : rets[i] = rets[j])
      => /\ Count(html, u) = 0
         /\ \A i \in refs : Count(html, rets[i]) = Cardinality(refs)

\* C20: process_html_content does not raise, and every img tag whose URL
\* was not downloaded still has that URL as its src in the HTML handed to
\* the conversion.
C20_FailedUrlLeftIntact ==
  /\ hpc # "raised"
  /\ Transformed =>
       \A i \in 1..Len(matches) :
         (\A j \in RefsTo(matches[i]) : rets[j] = <<>>)
         => (/\ Len(ImgSrcs(html)) = Len(matches)
             /\ ImgSrcs(html)[i] = matches[i])

\* C24: the sanitized name has the length of the name, an underscore where
\* the name has one of < > : " / \ | ? * and the character of the name
\* elsewhere; it has none of those characters, is non-empty for a non-empty
\* name, and sanitizing it again changes nothing.
C24_SanitizeReplacesInPlace ==
  spc = "done" =>
    /\ Len(safeName) = Len(rawName)
    /\ \A i \in 1..Len(rawName) :
         safeName[i] = IF rawName[i] \in {"<", ">", ":", "\"", "/", "\\", "|", "?", "*"}
                       THEN "_" ELSE rawName[i]
    /\ \A i \in 1..Len(safeName) :
         safeName[i] \notin {"<", ">", ":", "\"", "/", "\\", "|", "?", "*"}
    /\ rawName # <<>> => safeName # <<>>
    /\ Sanitize(safeName) = safeName

\* a name of two illegal characters became two underscores
C24_Witness ==
  /\ spc = "done" /\ rawName = <<"/", "*">> /\ safeName = <<"_", "_">>

\* a path component is non-empty and has none of < > : " / \ | ? *
SafeComponent(c) ==
  /\ c # <<>>
  /\ \A i \in 1..Len(c) : c[i] \notin {"<", ">", ":", "\"", "/", "\\", "|", "?", "*"}

\* C21: the notebook directory name, the section directory name and the page
\* file stem the walk uses are non-empty and free of the illegal characters,
\* whatever the names of the remote side are.
C21_ComponentsAreSafe ==
  /\ tpc \in {"section", "page", "done"} => SafeComponent(nbComp)
  /\ tpc \in {"page", "done"} => SafeComponent(secComp)
  /\ (tpc \in {"page", "done"} /\ page # NoPage /\ page.id \in pagesOk)
       => SafeComponent(stem)

\* C22: when the pages of the section are through, every page that was
\* exported has a Markdown file of its own holding it, and there are as many
\* files as exported pages.
C22_OneFilePerExportedPage ==
  tpc = "done" =>
    /\ Cardinality(mdFiles) = Cardinality(pagesOk)
    /\ \A id \in pagesOk : \E f \in mdFiles : f.page = id

\* only whitespace, or nothing at all
AllWhitespace(name) == \A i \in 1..Len(name) : name[i] = " "
\* the first n characters
FirstChars(id, n) == [i \in 1..(IF Len(id) < n THEN Len(id) ELSE n) |-> id[i]]

\* C25: the file stem of a page is page_ followed by the first eight
\* characters of the page id exactly when the sanitized title is empty or all
\* whitespace, and the sanitized title otherwise; the file written is
\* <stem>.md in the section directory.
C25_FallbackStem ==
  stem # <<>> =>
    /\ AllWhitespace(Sanitize(PageTitle(page)))
         => stem = <<"page_">> \o FirstChars(page.id, 8)
    /\ ~AllWhitespace(Sanitize(PageTitle(page)))
         => stem = Sanitize(PageTitle(page))
    /\ page.id \in pagesOk
         => \E f \in mdFiles :
              /\ f.page = page.id
              /\ f.path = Resolve(Join(secDir, stem \o <<".md">>))

\* a page titled with one space was written as page_<first eight of its id>
C25_Witness ==
  /\ page.id \in pagesOk
  /\ page.hasTitle /\ page.title = <<" ">> /\ Len(page.id) > 8
  /\ stem = <<"page_", "0", "-", "a", "b", "c", "d", "e", "f">>
  /\ \E f \in mdFiles : f.page = page.id /\ f.path = Append(secDir, stem \o <<".md">>)

\* inside the output directory
Inside(path) == Len(path) >= 1 /\ path[1] = <<"output">>

\* C29: every directory made and every Markdown file written lies inside
\* the output directory, whatever the notebook name, the section name and
\* the page title are.
C29_WritesStayInside ==
  /\ \A d \in dirs : Inside(d)
  /\ \A f \in mdFiles : Inside(f.path)

\* the record the walk is working for: the notebook whose sections are
\* listed, the section whose pages are listed, the page that is exported
WorkItem ==
  IF wpc = "list_sections" THEN notebooks[nbIdx]
  ELSE IF wpc = "list_pages" THEN sections[secIdx]
  ELSE IF wpc = "export_page" THEN pages[pgIdx]
  ELSE <<>>

\* record b is record a, a descendant of a, or comes after a (or after the
\* ancestor of a) in a listing they share
NotBefore(a, b) ==
  \/ Len(a) <= Len(b) /\ SubSeq(b, 1, Len(a)) = a
  \/ \E i \in 1..Len(a) :
       /\ i <= Len(b) /\ a[i] < b[i]
       /\ \A j \in 1..(i - 1) : a[j] = b[j]

\* C23: the walk is sequential and in listing order: work moves from a
\* record only to the record itself, to its descendants or to records that
\* come later in a listing, never back to an earlier record or to one of its
\* descendants; a GET is issued only when no backoff sleep is in progress
\* and only for the listing under the record being worked for; no listing
\* request is outstanding while a page is exported.
C23_WalkIsSequential ==
  [][/\ (WorkItem # <<>> /\ WorkItem' # <<>>) => NotBefore(WorkItem, WorkItem')
     /\ gets' = gets + 1 => (cpc # "sleep" /\ url.parent = WorkItem)
     /\ wpc = "export_page" => cpc = "idle"]_vars

\* the second page of the second section of the second notebook is being
\* exported, after everything before it
C23_Witness ==
  /\ wpc = "export_page" /\ nbIdx = 2 /\ secIdx = 2 /\ pgIdx = 2
  /\ pages[pgIdx] = <<2, 2, 2>>

\* C26: download_media is invoked only for src values that are absolute
\* HTTP(S) URLs, a scheme and a host in front of the path; a relative src
\* causes no invocation.
C26_DownloadsOnlyAbsoluteUrls ==
  \A i \in 1..Len(fetched) : Head(fetched[i]) = "http://h"

\* C27: within the transformation of one page download_media is invoked at
\* most once for each URL, however many img tags reference it.
C27_OneDownloadPerUrl ==
  \A u \in Urls : Cardinality({ i \in 1..Len(fetched) : fetched[i] = u }) <= 1

\* C28: the GET of a media URL on a host other than graph.microsoft.com
\* carries no Authorization header.
C28_NoTokenToOtherHosts ==
  (dpc \in {"streaming", "returned"} /\ Head(durl) = "http://h")
    => sentAuth = << <<>> >>

\* C30: two different URLs of one page that were both downloaded have
\* different local filenames.
C30_DistinctUrlsDistinctFiles ==
  \A i, j \in 1..Len(rets) :
    (matches[i] # matches[j] /\ rets[i] # <<>> /\ rets[j] # <<>>)
      => rets[i] # rets[j]

\* C33: every backoff sleep of a call is followed by another GET of the
\* call: a call that has ended slept fewer times than it issued GETs, and
\* no call sleeps after the GET of its last attempt.
C33_SleepIsFollowedByGet ==
  /\ cpc \in {"returned", "raised"} => Len(sleeps) < gets
  /\ cpc = "sleep" => attempt < 3

\* C34: whatever the responses, a 429 with a Retry-After that is no integer
\* included, an exception that leaves call_graph_with_retry is a
\* RequestException.
C34_OnlyRequestErrorsEscape ==
  cpc = "raised" => err.type \in {"ConnectionError", "HTTPError", "MissingSchema"}

\* a GET of the listing failed: the Caller raised or returned None
FetchFailed == cpc = "raised" \/ (cpc = "returned" /\ ret = <<>>)

\* C32: call_graph_paginated is all-or-nothing. When the fetch of a page of
\* a listing has failed, on the first page or on a continuation page, the
\* call ends with an error and hands no records to the walker; after the
\* error the walk fails with its lists as they were; and a list the walker
\* takes over is the whole listing, every page of it served and the last one
\* without a continuation link.
C32_ListingIsAllOrNothing ==
  [][/\ (ppc = "calling" /\ FetchFailed)
          => /\ ppc' = "raised" /\ perr' # NoErr
             /\ notebooks' = notebooks /\ sections' = sections /\ pages' = pages
     /\ ppc = "raised"
          => /\ wpc' = "failed"
             /\ notebooks' = notebooks /\ sections' = sections /\ pages' = pages
     /\ (notebooks' # notebooks \/ (sections' # sections /\ sections' # <<>>)
           \/ (pages' # pages /\ pages' # <<>>))
          => /\ ppc = "returned"
             /\ Len(served) = Len(purls)
             /\ served[Len(served)].next = NoLink
             /\ \A i \in 1..Len(served) : \A k \in 1..Len(served[i].value) :
                  \/ notebooks' # notebooks /\ \E n \in 1..Len(notebooks') :
                       notebooks'[n] = served[i].value[k]
                  \/ sections' # sections /\ \E n \in 1..Len(sections') :
                       sections'[n] = served[i].value[k]
                  \/ pages' # pages /\ \E n \in 1..Len(pages') :
                       pages'[n] = served[i].value[k]]_vars

\* the second page of the notebooks listing failed after the first had
\* brought records: the walk failed without a notebook
C32_Witness ==
  /\ ppc = "raised" /\ Len(served) = 1 /\ Len(purls) = 2 /\ results # <<>>
  /\ wpc = "failed" /\ notebooks = <<>>

\* a network failure, a 429 or a status >= 500
Retryable(e) ==
  \/ e.type = "ConnectionError"
  \/ e.type = "HTTPError" /\ (e.status = 429 \/ e.status >= 500)

\* C31: export_page issues one GET for the content and download_media one
\* GET for a media URL, neither through call_graph_with_retry: the Caller
\* stays idle and no backoff sleep is performed; after a network failure, a
\* 429 or a status >= 500 on the content GET the page is left after that one
\* GET, and after one on the media GET download_media has returned "" after
\* that one GET.
C31_DirectFetchesAreNotRetried ==
  /\ cgets = (IF hpc = "fetch" THEN 0 ELSE 1)
  /\ dgets = (IF dpc \in {"streaming", "returned"} /\ Head(durl) = "http://h"
              THEN 1 ELSE 0)
  /\ cpc = "idle" /\ gets = 0 /\ sleeps = <<>>
  /\ Retryable(cerr) => (hpc = "skipped" /\ cgets = 1 /\ fetched = <<>>)
  /\ Retryable(derr) => (dpc = "returned" /\ dgets = 1 /\ dret = <<>>)

\* the content was fetched with one GET and the media GET was answered 500:
\* download_media returned "" after its one GET
C31_Witness ==
  /\ cgets = 1 /\ cerr = NoErr
  /\ dpc = "returned" /\ derr = HTTPError(500) /\ dgets = 1 /\ dret = <<>>
====
